---- MODULE Spec2Model ----
(***************************************************************************)
(* Rule compilation and match resolution of the transaction categorizer   *)
(* (src/main.py, src/categorize_trans.py): make_loose_regex,               *)
(* load_rules_json, best_match and the part of main that drives them.     *)
(*                                                                         *)
(* A string is a sequence of characters; a character is a one-letter      *)
(* string, except U+00E9 / U+00C9 (e-acute), written "eacute" / "Eacute". *)
(* Offsets are Python's: a match [start, end) covers d[start+1 .. end].   *)
(***************************************************************************)
EXTENDS Integers, Sequences, FiniteSets, TLC

VARIABLES raw, txns, pc, compiled, ci, si, rules, call

vars == <<raw, txns, pc, compiled, ci, si, rules, call>>

\* ------------------------------------------------------------------------
\* Characters and the regular-expression character classes
\* ------------------------------------------------------------------------

UpperLetters ==
    <<"A","B","C","D","E","F","G","H","I","J","K","L","M",
      "N","O","P","Q","R","S","T","U","V","W","X","Y","Z">>

LowerLetters ==
    <<"a","b","c","d","e","f","g","h","i","j","k","l","m",
      "n","o","p","q","r","s","t","u","v","w","x","y","z">>

Digits == {"0","1","2","3","4","5","6","7","8","9"}

\* Letters outside ASCII: word characters for \w, but outside [A-Z0-9].
NonAsciiLower == {"eacute"}

NonAsciiUpper == {"Eacute"}

Whitespace == {" "}

Punctuation == {"-", ".", "#", "&"}

Char ==
    {UpperLetters[i] : i \in 1..26} \cup {LowerLetters[i] : i \in 1..26}
      \cup Digits \cup NonAsciiLower \cup NonAsciiUpper \cup {"_"}
      \cup Whitespace \cup Punctuation

\* Faulty variant of LowerOf: the pattern is compiled without re.I.
LowerOfCaseSensitive == [c \in Char |-> c]

\* re.I: two characters are equal when their lower-case forms are.
LowerOf ==
    [c \in Char |->
        IF \E i \in 1..26 : UpperLetters[i] = c
        THEN LowerLetters[CHOOSE i \in 1..26 : UpperLetters[i] = c]
        ELSE IF c = "Eacute" THEN "eacute" ELSE c]

\* The class [A-Z0-9] (main.py) / [A-Za-z0-9] (categorize_trans.py) under
\* re.I: the ASCII letters of either case and the digits.
InLookaroundClass(c) ==
    \/ \E i \in 1..26 : LowerLetters[i] = LowerOf[c]
    \/ c \in Digits

\* \w on str patterns: Unicode letters and digits, and the underscore.
IsWordChar(c) ==
    \/ InLookaroundClass(c)
    \/ c \in NonAsciiLower \cup NonAsciiUpper
    \/ c = "_"

\* ------------------------------------------------------------------------
\* make_loose_regex
\* ------------------------------------------------------------------------

RECURSIVE lstrip(_)
lstrip(s) ==
    IF s # <<>> /\ Head(s) \in Whitespace THEN lstrip(Tail(s)) ELSE s

RECURSIVE rstrip(_)
rstrip(s) ==
    IF s # <<>> /\ s[Len(s)] \in Whitespace
    THEN rstrip(SubSeq(s, 1, Len(s) - 1))
    ELSE s

\* str.strip()
strip(s) == rstrip(lstrip(s))

\* [t for t in re.split(r"[^\w]+", term) if t]: the maximal runs of word
\* characters, in order.  cur is the run being read, acc the runs read.
RECURSIVE SplitRuns(_, _, _)
SplitRuns(s, cur, acc) ==
    IF s = <<>>
    THEN IF cur = <<>> THEN acc ELSE Append(acc, cur)
    ELSE IF IsWordChar(Head(s))
         THEN SplitRuns(Tail(s), Append(cur, Head(s)), acc)
         ELSE SplitRuns(Tail(s), <<>>, IF cur = <<>> THEN acc ELSE Append(acc, cur))

tokens(term) == SplitRuns(term, <<>>, <<>>)

\* Faulty variant of make_loose_regex: the term is not stripped.
make_loose_regex_unstripped(t) ==
    IF tokens(t) = <<>>
    THEN [body |-> <<t>>, lookaround |-> FALSE]
    ELSE [body |-> tokens(t), lookaround |-> TRUE]

\* A compiled pattern: the literal pieces that are joined by \W*, and
\* whether the lookarounds (?<![A-Z0-9]) ... (?![A-Z0-9]) surround them.
\* A term without tokens compiles to re.escape(term) alone: one literal
\* piece, no lookarounds.
make_loose_regex(t) ==
    LET term == strip(t)
        toks == tokens(term)
    IN  IF toks = <<>>
        THEN [body |-> <<term>>, lookaround |-> FALSE]
        ELSE [body |-> toks, lookaround |-> TRUE]

\* ------------------------------------------------------------------------
\* pat.search(desc)
\* ------------------------------------------------------------------------

\* The literal piece lit matches d at offset p, ignoring case.
LiteralAt(lit, d, p) ==
    /\ p + Len(lit) <= Len(d)
    /\ \A i \in 1..Len(lit) : LowerOf[d[p + i]] = LowerOf[lit[i]]

\* Length of the run of non-word characters of d that starts at offset p.
RECURSIVE NonWordRun(_, _)
NonWordRun(d, p) ==
    IF p < Len(d) /\ ~IsWordChar(d[p + 1]) THEN 1 + NonWordRun(d, p + 1) ELSE 0

LookbehindOk(d, p) == p = 0 \/ ~InLookaroundClass(d[p])

LookaheadOk(d, p) == p = Len(d) \/ ~InLookaroundClass(d[p + 1])

\* End offset of the match of lits (joined by \W*) that starts at offset p,
\* or -1.  \W* is greedy and backtracks: the gap is tried from the longest
\* run down to the empty one.
RECURSIVE MatchBody(_, _, _, _), TryGap(_, _, _, _, _)
MatchBody(lits, d, p, la) ==
    IF ~LiteralAt(Head(lits), d, p)
    THEN -1
    ELSE LET q == p + Len(Head(lits))
         IN  IF Len(lits) = 1
             THEN IF la => LookaheadOk(d, q) THEN q ELSE -1
             ELSE TryGap(Tail(lits), d, q, NonWordRun(d, q), la)

\* Faulty variant of TryGap: the tokens are joined by nothing, not by \W*.
TryGapEmpty(lits, d, q, g, la) == MatchBody(lits, d, q, la)

TryGap(lits, d, q, g, la) ==
    IF g < 0
    THEN -1
    ELSE LET e == MatchBody(lits, d, q + g, la)
         IN  IF e >= 0 THEN e ELSE TryGap(lits, d, q, g - 1, la)

MatchAt(pat, d, p) ==
    IF pat.lookaround /\ ~LookbehindOk(d, p)
    THEN -1
    ELSE MatchBody(pat.body, d, p, pat.lookaround)

None == [found |-> FALSE, start |-> 0, end |-> 0]

\* The leftmost match, or None.
search(pat, d) ==
    IF \E p \in 0..Len(d) : MatchAt(pat, d, p) >= 0
    THEN LET p == CHOOSE x \in 0..Len(d) :
                    /\ MatchAt(pat, d, x) >= 0
                    /\ \A y \in 0..(x - 1) : MatchAt(pat, d, y) < 0
         IN  [found |-> TRUE, start |-> p, end |-> MatchAt(pat, d, p)]
    ELSE None

\* ------------------------------------------------------------------------
\* The rules document (the value json.load returns)
\* ------------------------------------------------------------------------

\* A JSON value is [kind, val]: a string holds its characters, a list its
\* elements, a mapping its <<key, value>> pairs in document order.
Str(s) == [kind |-> "str", val |-> s]

List(xs) == [kind |-> "list", val |-> xs]

Map(kvs) == [kind |-> "map", val |-> kvs]

Num == [kind |-> "num", val |-> <<>>]

Null == [kind |-> "null", val |-> <<>>]

\* `for t in terms`: a list yields its elements, a string its characters
\* (each a one-character string), a mapping its keys; nothing else iterates.
Iterable(v) == v.kind \in {"list", "str", "map"}

Elements(v) ==
    IF v.kind = "list" THEN v.val
    ELSE IF v.kind = "str" THEN [i \in 1..Len(v.val) |-> Str(<<v.val[i]>>)]
    ELSE [i \in 1..Len(v.val) |-> Str(v.val[i][1])]

\* ------------------------------------------------------------------------
\* best_match, as a function
\* ------------------------------------------------------------------------

Sentinel == <<"Uncategorized", "Other">>

\* The (cat, sub, pat) triples of a rule set in the order the three nested
\* loops of best_match visit them.
RECURSIVE SubTriples(_, _), CatTriples(_, _), Triples(_)
SubTriples(owner, patterns) ==
    [i \in 1..Len(patterns) |-> <<owner[1], owner[2], patterns[i]>>]

CatTriples(cat, subs) ==
    IF subs = <<>>
    THEN <<>>
    ELSE SubTriples(<<cat, Head(subs)[1]>>, Head(subs)[2]) \o CatTriples(cat, Tail(subs))

Triples(rs) ==
    IF rs = <<>>
    THEN <<>>
    ELSE CatTriples(Head(rs)[1], Head(rs)[2]) \o Triples(Tail(rs))

\* Faulty variant of Visit: every match replaces the best so far.
VisitLastMatch(loc, t, desc) ==
    LET m == search(t[3], desc)
    IN  IF m.found
        THEN [best_len |-> m.end - m.start, best_pair |-> <<t[1], t[2]>>, m |-> m]
        ELSE [best_len |-> loc.best_len, best_pair |-> loc.best_pair, m |-> m]

\* Faulty variant of Visit: the span is compared whether or not the search
\* found a match.
VisitUnguarded(loc, t, desc) ==
    LET m == search(t[3], desc)
    IN  IF m.end - m.start > loc.best_len
        THEN [best_len |-> m.end - m.start, best_pair |-> <<t[1], t[2]>>, m |-> m]
        ELSE [best_len |-> loc.best_len, best_pair |-> loc.best_pair, m |-> m]

\* Faulty variant of Visit: an equal span replaces the best so far (>=).
VisitOrEqual(loc, t, desc) ==
    LET m == search(t[3], desc)
    IN  IF m.found /\ m.end - m.start >= loc.best_len
        THEN [best_len |-> m.end - m.start, best_pair |-> <<t[1], t[2]>>, m |-> m]
        ELSE [best_len |-> loc.best_len, best_pair |-> loc.best_pair, m |-> m]

\* One pass of the innermost loop body (lines 129-134) over triple t.
Visit(loc, t, desc) ==
    LET m == search(t[3], desc)
        span_len == m.end - m.start
    IN  IF m.found /\ span_len > loc.best_len
        THEN [best_len |-> span_len, best_pair |-> <<t[1], t[2]>>, m |-> m]
        ELSE [best_len |-> loc.best_len, best_pair |-> loc.best_pair, m |-> m]

Locals0 == [best_len |-> -1, best_pair |-> Sentinel, m |-> None]

RECURSIVE Fold(_, _, _)
Fold(loc, ts, desc) ==
    IF ts = <<>> THEN loc ELSE Fold(Visit(loc, Head(ts), desc), Tail(ts), desc)

best_match(desc, rs) == Fold(Locals0, Triples(rs), desc).best_pair

\* ------------------------------------------------------------------------
\* Inputs: rule terms, descriptions and rules documents
\* ------------------------------------------------------------------------

MaxTermLen == 3

MaxDescLen == 3

MaxRules == 2

MaxTxns == 2

SeqsUpTo(S, n) == UNION {[1..k -> S] : k \in 0..n}

\* The terms and descriptions that the specification and the module
\* docstrings use as examples.
T_uber == <<"u","b","e","r">>

T_uber_cool_tv == <<"u","b","e","r"," ","c","o","o","l"," ","t","v">>

T_gas == <<"g","a","s">>

T_fedex == <<"f","e","d","e","x">>

T_walmart == <<"w","a","l","m","a","r","t">>

T_wal_mart == <<"w","a","l"," ","m","a","r","t">>

T_whole_foods == <<"w","h","o","l","e"," ","f","o","o","d","s">>

T_amp == <<"&">>

D_uber == <<"U","B","E","R"," ","C","O","O","L"," ","T","V"," ","M","O","N","T","H","L","Y">>

D_vegas == <<"L","a","s"," ","V","e","g","a","s"," ","C","a","s","i","n","o">>

D_fedex == <<"F","E","D","E","X"," ","O","F","F","I","C","E"," ","P","R","I","N","T"," ","#","1","2","3">>

D_wal_dash == <<"W","A","L","-","M","A","R","T">>

D_wal_space == <<"W","a","l"," ","M","a","r","t"," ","#","1","2","3","4">>

D_wal_com == <<"w","a","l","m","a","r","t",".","c","o","m">>

D_wholefoods == <<"W","H","O","L","E","F","O","O","D","S"," ","M","K","T"," ","#","5","3","2"," ","C","A","M","B","R","I","D","G","E"," ","M","A">>

D_a_amp_b == <<"A","&","B">>

ExampleTerms ==
    {T_uber, T_uber_cool_tv, T_gas, T_fedex, T_walmart, T_wal_mart, T_whole_foods, T_amp}

ExampleDescs ==
    {D_uber, D_vegas, D_fedex, D_wal_dash, D_wal_space, D_wal_com, D_wholefoods, D_a_amp_b}

\* Generated terms: a letter, a punctuation mark and whitespace.
TermAlphabet == {"a", "-", " "}

\* Generated descriptions: a letter in both cases and a punctuation mark;
\* with the underscore and a letter outside ASCII for the terms of CoreTerms
\* (one token, two tokens, punctuation only, empty).
PlainAlphabet == {"a", "A", "-"}

DescAlphabet == PlainAlphabet \cup {"_", "eacute"}

CoreTerms == {<<>>, <<"a">>, <<"a", " ", "a">>, <<"-">>}

Cats == {"Transport", "Entertainment"}

Subs == {"Rideshare", "Streaming"}

\* Terms and descriptions of the documents that hold several rules.
RuleTerms == {<<>>, <<"a">>, <<"a", " ", "b">>}

RuleDescs ==
    {<<>>, <<"a">>, <<"a", "b">>, <<"a", "-", "b">>, <<"b", "-", "a">>,
     <<"b", "-", "a", "-", "-", "b">>}

\* Terms and descriptions of the runs that resolve several transactions.
BatchRules ==
    { <<"Transport", "Rideshare", <<"a">>>>,
      <<"Entertainment", "Streaming", <<"a", " ", "b">>>> }

BatchDescs == {<<>>, <<"a">>, <<"b", "-", "a", "-", "b">>}

\* The document in which the rule (cat, sub, term) is written after the
\* rules of doc: a new key goes last, a term goes last in its list.
HasKey(kvs, k) == \E i \in 1..Len(kvs) : kvs[i][1] = k

KeyIndex(kvs, k) == CHOOSE i \in 1..Len(kvs) : kvs[i][1] = k

PutTerm(terms, t) == List(Append(terms.val, Str(t)))

PutSub(subs, sub, t) ==
    IF HasKey(subs.val, sub)
    THEN LET j == KeyIndex(subs.val, sub)
         IN  Map([subs.val EXCEPT ![j] = <<sub, PutTerm(subs.val[j][2], t)>>])
    ELSE Map(Append(subs.val, <<sub, List(<<Str(t)>>)>>))

PutRule(doc, r) ==
    IF HasKey(doc.val, r[1])
    THEN LET i == KeyIndex(doc.val, r[1])
         IN  Map([doc.val EXCEPT ![i] = <<r[1], PutSub(doc.val[i][2], r[2], r[3])>>])
    ELSE Map(Append(doc.val, <<r[1], PutSub(Map(<<>>), r[2], r[3])>>))

RECURSIVE DocOf(_)
DocOf(rs) ==
    IF rs = <<>> THEN Map(<<>>) ELSE PutRule(DocOf(SubSeq(rs, 1, Len(rs) - 1)), rs[Len(rs)])

\* The two-rule example of the specification, in both declaration orders.
ExampleRules ==
    { << <<"Transport", "Rideshare", T_uber>>,
         <<"Entertainment", "Streaming", T_uber_cool_tv>> >>,
      << <<"Entertainment", "Streaming", T_uber_cool_tv>>,
         <<"Transport", "Rideshare", T_uber>> >> }

\* Documents that are not of the shape {category: {subcategory: [term]}}.
MalformedDocs ==
    << Map(<< <<"Food", Map(<< <<"Groceries", Str(T_walmart)>> >>)>> >>),
       Map(<< <<"Food", Map(<< <<"Groceries", Map(<< <<T_gas, Num>> >>)>> >>)>> >>),
       Map(<< <<"Food", Map(<< <<"Groceries", List(<<Str(T_gas), Num>>)>> >>)>> >>),
       Map(<< <<"Food", Map(<< <<"Groceries", List(<<Null>>)>> >>)>> >>),
       Map(<< <<"Food", Map(<< <<"Groceries", Num>> >>)>> >>),
       Map(<< <<"Food", Map(<< <<"Groceries", List(<<Str(T_gas)>>)>>,
                              <<"Fuel", Null>> >>)>> >>),
       Map(<< <<"Food", List(<<Str(T_gas)>>)>> >>),
       Map(<< <<"Food", Str(T_gas)>> >>),
       Map(<< <<"Food", Map(<< <<"Groceries", List(<<Str(T_gas)>>)>> >>)>>,
              <<"Auto", Num>> >>),
       List(<<Str(T_gas)>>),
       Null >>

\* ------------------------------------------------------------------------
\* The program: main loads the rules, then resolves every description
\* ------------------------------------------------------------------------

Idle == [st |-> "idle", k |-> 0, loc |-> Locals0]

Init ==
    /\ \/ \E t \in SeqsUpTo(TermAlphabet, MaxTermLen),
             d \in SeqsUpTo(PlainAlphabet, MaxDescLen) :
            /\ raw = DocOf(<< <<"Transport", "Rideshare", t>> >>)
            /\ txns = <<d>>
       \/ \E t \in CoreTerms, d \in SeqsUpTo(DescAlphabet, MaxDescLen) :
            /\ raw = DocOf(<< <<"Transport", "Rideshare", t>> >>)
            /\ txns = <<d>>
       \/ \E t \in ExampleTerms, d \in ExampleDescs :
            /\ raw = DocOf(<< <<"Transport", "Rideshare", t>> >>)
            /\ txns = <<d>>
       \/ \E rs \in SeqsUpTo(Cats \X Subs \X RuleTerms, MaxRules), d \in RuleDescs :
            /\ raw = DocOf(rs)
            /\ txns = <<d>>
       \/ \E rs \in SeqsUpTo(BatchRules, 2), ds \in [1..MaxTxns -> BatchDescs] :
            /\ raw = DocOf(rs)
            /\ txns = ds
       \/ \E rs \in ExampleRules, d \in ExampleDescs :
            /\ raw = DocOf(rs)
            /\ txns = <<d>>
       \/ \E i \in 1..Len(MalformedDocs), d \in {<<>>, T_gas} :
            /\ raw = MalformedDocs[i]
            /\ txns = <<d>>
    /\ pc = "load"
    /\ compiled = <<>>
    /\ ci = 0
    /\ si = 0
    /\ rules = <<>>
    /\ call = [i \in 1..Len(txns) |-> Idle]

\* load_rules_json, line 106 on a document that is no mapping: raw.items()
\* raises.
LoadFail ==
    /\ pc = "load"
    /\ raw.kind # "map"
    /\ pc' = "error"
    /\ UNCHANGED <<raw, txns, compiled, ci, si, rules, call>>

\* load_rules_json, lines 106-108: the next category gets an empty entry,
\* then subs.items() is taken (and raises unless subs is a mapping).
LoadCategory ==
    /\ pc = "load"
    /\ raw.kind = "map"
    /\ ci < Len(raw.val)
    /\ LET category == raw.val[ci + 1][1]
           subs == raw.val[ci + 1][2]
       IN  /\ compiled' = Append(compiled, <<category, <<>>>>)
           /\ pc' = IF subs.kind = "map" THEN "subs" ELSE "error"
    /\ ci' = ci + 1
    /\ si' = 0
    /\ UNCHANGED <<raw, txns, rules, call>>

\* load_rules_json, lines 108-109: the next subcategory's terms are
\* compiled; iterating the terms or stripping a term may raise.
LoadSubcat ==
    /\ pc = "subs"
    /\ si < Len(raw.val[ci][2].val)
    /\ LET subcat == raw.val[ci][2].val[si + 1][1]
           terms == raw.val[ci][2].val[si + 1][2]
           ts == Elements(terms)
       IN  IF Iterable(terms) /\ \A i \in 1..Len(ts) : ts[i].kind = "str"
           THEN /\ compiled' =
                     [compiled EXCEPT ![ci][2] =
                         Append(@, <<subcat, [i \in 1..Len(ts) |-> make_loose_regex(ts[i].val)]>>)]
                /\ si' = si + 1
                /\ pc' = "subs"
           ELSE /\ pc' = "error"
                /\ UNCHANGED <<compiled, si>>
    /\ UNCHANGED <<raw, txns, ci, rules, call>>

\* The inner loop of load_rules_json ends; back to the outer loop.
LoadSubcatsDone ==
    /\ pc = "subs"
    /\ si = Len(raw.val[ci][2].val)
    /\ pc' = "load"
    /\ UNCHANGED <<raw, txns, compiled, ci, si, rules, call>>

\* load_rules_json, line 110, and main, line 188.
LoadReturn ==
    /\ pc = "load"
    /\ raw.kind = "map"
    /\ ci = Len(raw.val)
    /\ rules' = compiled
    /\ pc' = "match"
    /\ UNCHANGED <<raw, txns, compiled, ci, si, call>>

\* Faulty variant of Begin: best_len and best_pair live outside the function
\* and keep the values the previous description's call left in them.
BeginStale(i) ==
    /\ pc = "match"
    /\ call[i].st = "idle"
    /\ call' = [call EXCEPT ![i] =
                   [st |-> "loop", k |-> 0,
                    loc |-> IF i > 1 THEN call[i - 1].loc ELSE Locals0]]
    /\ UNCHANGED <<raw, txns, pc, compiled, ci, si, rules>>

\* best_match, lines 123-124, called for description i (main, line 204).
\* The calls share rules and nothing else, so descriptions may be resolved
\* in any order and interleaved.
Begin(i) ==
    /\ pc = "match"
    /\ call[i].st = "idle"
    /\ call' = [call EXCEPT ![i] = [st |-> "loop", k |-> 0, loc |-> Locals0]]
    /\ UNCHANGED <<raw, txns, pc, compiled, ci, si, rules>>

\* best_match, lines 126-134: the next pattern is searched.
Iterate(i) ==
    /\ pc = "match"
    /\ call[i].st = "loop"
    /\ call[i].k < Len(Triples(rules))
    /\ call' = [call EXCEPT ![i] =
                   [st |-> "loop",
                    k |-> @.k + 1,
                    loc |-> Visit(@.loc, Triples(rules)[@.k + 1], txns[i])]]
    /\ UNCHANGED <<raw, txns, pc, compiled, ci, si, rules>>

\* best_match, line 135.
Return(i) ==
    /\ pc = "match"
    /\ call[i].st = "loop"
    /\ call[i].k = Len(Triples(rules))
    /\ call' = [call EXCEPT ![i].st = "done"]
    /\ UNCHANGED <<raw, txns, pc, compiled, ci, si, rules>>

Next ==
    \/ LoadFail
    \/ LoadCategory
    \/ LoadSubcat
    \/ LoadSubcatsDone
    \/ LoadReturn
    \/ \E i \in 1..Len(txns) : Begin(i)
    \/ \E i \in 1..Len(txns) : Iterate(i)
    \/ \E i \in 1..Len(txns) : Return(i)

Spec == Init /\ [][Next]_vars

\* ------------------------------------------------------------------------
\* Vocabulary of the properties
\* ------------------------------------------------------------------------

Calls == 1..Len(txns)

Done(i) == pc = "match" /\ call[i].st = "done"

Result(i) == call[i].loc.best_pair

Owner(ts, j) == <<ts[j][1], ts[j][2]>>

\* What each matcher of ts finds in d, and the length of what it finds.
Hits(ts, d) == [j \in 1..Len(ts) |-> search(ts[j][3], d)]

SpanOf(m) == m.end - m.start

\* An alphanumeric character: a letter of any script or a digit.
IsAlnum(c) ==
    \/ c \in {UpperLetters[i] : i \in 1..26} \cup {LowerLetters[i] : i \in 1..26}
    \/ c \in Digits \cup NonAsciiLower \cup NonAsciiUpper

NonAlnumChars == {c \in Char : ~IsAlnum(c)}

NonWordChars == {c \in Char : ~IsAlnum(c) /\ c # "_"}

\* The rules document has the shape {category: {subcategory: [term, ...]}}.
WellFormed(doc) ==
    /\ doc.kind = "map"
    /\ \A i \in 1..Len(doc.val) :
          /\ doc.val[i][2].kind = "map"
          /\ \A j \in 1..Len(doc.val[i][2].val) :
                /\ doc.val[i][2].val[j][2].kind = "list"
                /\ \A n \in 1..Len(doc.val[i][2].val[j][2].val) :
                      doc.val[i][2].val[j][2].val[n].kind = "str"

\* The (category, subcategory, term) entries of a well-formed document in
\* the order they are written.
RECURSIVE Concat(_)
Concat(ss) == IF ss = <<>> THEN <<>> ELSE Head(ss) \o Concat(Tail(ss))

RawTriples(doc) ==
    Concat([i \in 1..Len(doc.val) |->
        Concat([j \in 1..Len(doc.val[i][2].val) |->
            [n \in 1..Len(doc.val[i][2].val[j][2].val) |->
                <<doc.val[i][1], doc.val[i][2].val[j][1],
                  doc.val[i][2].val[j][2].val[n].val>>]])])

\* The call has searched a matcher; the matcher of its latest search and
\* what that search found.
Searched(i) == pc = "match" /\ call[i].k >= 1

LastPat(ts, i) == ts[call[i].k][3]

LastMatch(i) == call[i].loc.m

\* The characters x and y are the same letter in either case, or equal.
SameLetter(x, y) ==
    \/ x = y
    \/ \E i \in 1..26 : {x, y} = {UpperLetters[i], LowerLetters[i]}
    \/ {x, y} = {"eacute", "Eacute"}

\* a and b are equal up to letter case.
CaseEq(a, b) ==
    /\ Len(a) = Len(b)
    /\ \A i \in 1..Len(a) : SameLetter(a[i], b[i])

\* No alphanumeric character stands right before offset p of d.
FreeBefore(d, p) == p = 0 \/ ~IsAlnum(d[p])

\* No alphanumeric character stands right after offset p of d.
FreeAfter(d, p) == p = Len(d) \/ ~IsAlnum(d[p + 1])

\* ------------------------------------------------------------------------
\* Properties of best_match
\* ------------------------------------------------------------------------

\* C1 (longest span wins): when a call has returned and one matcher's span
\* on the description is strictly longer than the span of every other
\* matcher that matches it, the result is that matcher's owner, wherever the
\* rule stands in the document; the rules uber and "uber cool tv" resolve
\* "UBER COOL TV MONTHLY" to Entertainment/Streaming in both orders.
LongestSpanWins ==
    \A i \in Calls :
        Done(i) =>
            LET ts == Triples(rules)
                h == Hits(ts, txns[i])
            IN  /\ \A j \in 1..Len(ts) :
                      ( /\ h[j].found
                        /\ \A n \in 1..Len(ts) :
                              (n # j /\ h[n].found) => SpanOf(h[n]) < SpanOf(h[j]) )
                          => Result(i) = Owner(ts, j)
                /\ ( /\ txns[i] = D_uber
                     /\ WellFormed(raw)
                     /\ RawTriples(raw) \in ExampleRules )
                      => Result(i) = <<"Entertainment", "Streaming">>

\* C1 witness: a call returned after the longest match was met first and a
\* shorter match of another owner after it.
LongestSpanWinsWitness ==
    \E i \in Calls :
        LET ts == Triples(rules)
            h == Hits(ts, txns[i])
        IN  /\ Done(i)
            /\ Len(ts) = 2
            /\ h[1].found
            /\ h[2].found
            /\ SpanOf(h[2]) < SpanOf(h[1])
            /\ Owner(ts, 1) # Owner(ts, 2)
            /\ Result(i) = Owner(ts, 1)

\* C2 (no-match fallback): a call that returned when no matcher of the rule
\* set matches its description (an empty rule set included) returned
\* ("Uncategorized", "Other"); every returned value is that pair or the
\* owner of a matcher that matches.
NoMatchFallback ==
    \A i \in Calls :
        Done(i) =>
            LET ts == Triples(rules)
                h == Hits(ts, txns[i])
            IN  /\ (\A j \in 1..Len(ts) : ~h[j].found) => Result(i) = Sentinel
                /\ \/ Result(i) = Sentinel
                   \/ \E j \in 1..Len(ts) : h[j].found /\ Result(i) = Owner(ts, j)

\* C2 witness: a call returned the sentinel from a rule set with two
\* matchers, neither of which matches the (non-empty) description.
NoMatchFallbackWitness ==
    \E i \in Calls :
        LET ts == Triples(rules)
            h == Hits(ts, txns[i])
        IN  /\ Done(i)
            /\ Len(ts) = 2
            /\ txns[i] # <<>>
            /\ \A j \in 1..Len(ts) : ~h[j].found
            /\ Result(i) = Sentinel

\* Of the first k searches h, the first whose match is the longest.
FirstLongest(h, k) ==
    CHOOSE j \in 1..k :
        /\ h[j].found
        /\ \A n \in 1..k : h[n].found => SpanOf(h[n]) <= SpanOf(h[j])
        /\ \A n \in 1..k : (h[n].found /\ SpanOf(h[n]) = SpanOf(h[j])) => j <= n

\* C3 (ties go to the first encountered): after every pass of the loop,
\* best_pair is the owner of the first matcher visited so far whose span is
\* the longest visited so far (the sentinel when none matched), best_len is
\* that span, and the visiting order is the order in which the document
\* lists categories, then subcategories, then terms.
FirstEncounteredWins ==
    pc = "match" =>
        LET ts == Triples(rules)
        IN  /\ \A i \in Calls :
                  LET h == Hits(ts, txns[i])
                      k == call[i].k
                  IN  IF \A j \in 1..k : ~h[j].found
                      THEN /\ call[i].loc.best_pair = Sentinel
                           /\ call[i].loc.best_len = -1
                      ELSE /\ call[i].loc.best_pair = Owner(ts, FirstLongest(h, k))
                           /\ call[i].loc.best_len = SpanOf(h[FirstLongest(h, k)])
            /\ WellFormed(raw) =>
                  LET rt == RawTriples(raw)
                  IN  /\ Len(ts) = Len(rt)
                      /\ \A j \in 1..Len(ts) :
                            /\ Owner(ts, j) = <<rt[j][1], rt[j][2]>>
                            /\ ts[j][3] = make_loose_regex(rt[j][3])

\* C3 witness: a call returned the owner of the first of two matchers of
\* different owners whose spans are equal.
FirstEncounteredWinsWitness ==
    \E i \in Calls :
        LET ts == Triples(rules)
            h == Hits(ts, txns[i])
        IN  /\ Done(i)
            /\ Len(ts) = 2
            /\ h[1].found
            /\ h[2].found
            /\ SpanOf(h[1]) = SpanOf(h[2])
            /\ Owner(ts, 1) # Owner(ts, 2)
            /\ Result(i) = Owner(ts, 1)

\* ------------------------------------------------------------------------
\* Properties of the compiled matchers
\* ------------------------------------------------------------------------

\* C4 (substring boundary): a match of a matcher compiled from a term with
\* at least one token has no alphanumeric character right before it and
\* none right after it; "gas" does not match "Las Vegas Casino" and "fedex"
\* matches "FEDEX OFFICE PRINT #123" on exactly its first five characters.
SubstringBoundary ==
    \A i \in Calls :
        Searched(i) =>
            LET pat == LastPat(Triples(rules), i)
                m == LastMatch(i)
            IN  pat.lookaround =>
                    /\ m.found =>
                          /\ FreeBefore(txns[i], m.start)
                          /\ FreeAfter(txns[i], m.end)
                    /\ (pat = make_loose_regex(T_gas) /\ txns[i] = D_vegas)
                          => ~m.found
                    /\ (pat = make_loose_regex(T_fedex) /\ txns[i] = D_fedex)
                          => m = [found |-> TRUE, start |-> 0, end |-> 5]

WalmartDescs == {D_wal_dash, D_wal_space, D_wal_com}

\* The call returned and the rule set holds one matcher, compiled from t.
ResolvedByOnly(i, t) ==
    /\ Done(i)
    /\ Len(Triples(rules)) = 1
    /\ Triples(rules)[1][3] = make_loose_regex(t)

OnlyOwner == Owner(Triples(rules), 1)

\* C5 as written (one-word term): with "walmart" as the only rule, each of
\* "WAL-MART", "Wal Mart #1234" and "walmart.com" resolves to its owner.
OneWordTermSpansSeparators ==
    \A i \in Calls :
        (txns[i] \in WalmartDescs /\ ResolvedByOnly(i, T_walmart))
            => Result(i) = OnlyOwner

\* C5 amended: with the two-word term "wal mart" as the only rule, each of
\* "WAL-MART", "Wal Mart #1234" and "walmart.com" resolves to its owner;
\* with the one-word term "walmart", "walmart.com" does and the other two
\* resolve to ("Uncategorized", "Other").
TwoWordTermSpansSeparators ==
    \A i \in Calls :
        txns[i] \in WalmartDescs =>
            /\ ResolvedByOnly(i, T_wal_mart) => Result(i) = OnlyOwner
            /\ ResolvedByOnly(i, T_walmart) =>
                  Result(i) = IF txns[i] = D_wal_com THEN OnlyOwner ELSE Sentinel

\* C5 witness: "WAL-MART" resolved to the owner of the only rule "wal mart".
TwoWordTermSpansSeparatorsWitness ==
    \E i \in Calls :
        /\ txns[i] = D_wal_dash
        /\ ResolvedByOnly(i, T_wal_mart)
        /\ Result(i) = OnlyOwner

\* s is the tokens toks in order, each in any letter case, with a run
\* (possibly empty) of characters of seps between consecutive ones.
RECURSIVE IsVariant(_, _, _)
IsVariant(toks, s, seps) ==
    LET t == Head(toks)
    IN  /\ Len(s) >= Len(t)
        /\ CaseEq(SubSeq(s, 1, Len(t)), t)
        /\ IF Len(toks) = 1
           THEN Len(s) = Len(t)
           ELSE \E g \in 0..(Len(s) - Len(t)) :
                   /\ \A n \in 1..g : s[Len(t) + n] \in seps
                   /\ IsVariant(Tail(toks), SubSeq(s, Len(t) + g + 1, Len(s)), seps)

\* d is prefix + variant + suffix, the prefix empty or ending with a
\* non-alphanumeric character, the suffix empty or beginning with one.
HasVariantForm(d, toks, seps) ==
    \E a \in 0..Len(d) : \E b \in a..Len(d) :
        /\ FreeBefore(d, a)
        /\ FreeAfter(d, b)
        /\ IsVariant(toks, SubSeq(d, a + 1, b), seps)

Occurrences(lit, d) ==
    {p \in 0..(Len(d) - Len(lit)) : CaseEq(SubSeq(d, p + 1, p + Len(lit)), lit)}

\* s is t without its leading and trailing whitespace.
IsTrimOf(s, t) ==
    /\ \E a \in 0..Len(t) :
          /\ a + Len(s) <= Len(t)
          /\ s = SubSeq(t, a + 1, a + Len(s))
          /\ \A n \in 1..Len(t) : (n <= a \/ n > a + Len(s)) => t[n] \in Whitespace
    /\ s # <<>> => (s[1] \notin Whitespace /\ s[Len(s)] \notin Whitespace)

\* C10 as written (token-less terms): a match of the matcher compiled from
\* a term without tokens has no alphanumeric character right before it and
\* none right after it.
TokenlessTermBoundary ==
    \A i \in Calls :
        Searched(i) =>
            LET pat == LastPat(Triples(rules), i)
                m == LastMatch(i)
            IN  (~pat.lookaround /\ m.found) =>
                    /\ FreeBefore(txns[i], m.start)
                    /\ FreeAfter(txns[i], m.end)

\* C10 amended: a term without word characters is compiled to one literal,
\* the trimmed term, and that matcher matches the leftmost occurrence of the
\* literal in the description, in any letter case and whatever stands next
\* to it (an empty literal matches at offset 0 with span 0); it matches
\* nothing when the literal does not occur.
TokenlessTermLiteral ==
    pc = "match" =>
        LET ts == Triples(rules)
        IN  /\ WellFormed(raw) =>
                  LET rt == RawTriples(raw)
                  IN  \A j \in 1..Len(ts) :
                          (\A n \in 1..Len(rt[j][3]) : ~IsWordChar(rt[j][3][n]))
                            => /\ ~ts[j][3].lookaround
                               /\ Len(ts[j][3].body) = 1
                               /\ IsTrimOf(ts[j][3].body[1], rt[j][3])
            /\ \A i \in Calls :
                  (Searched(i) /\ ~LastPat(ts, i).lookaround) =>
                      LET lit == LastPat(ts, i).body[1]
                          m == LastMatch(i)
                          occ == Occurrences(lit, txns[i])
                      IN  IF occ = {}
                          THEN ~m.found
                          ELSE /\ m.found
                               /\ m.start \in occ
                               /\ \A p \in occ : m.start <= p
                               /\ m.end = m.start + Len(lit)

\* C10 witness: the matcher of the term "&" was searched in "A&B" and
\* matched the "&" between the two letters.
TokenlessTermLiteralWitness ==
    \E i \in Calls :
        /\ Searched(i)
        /\ txns[i] = D_a_amp_b
        /\ LastPat(Triples(rules), i) = [body |-> <<T_amp>>, lookaround |-> FALSE]
        /\ LastMatch(i) = [found |-> TRUE, start |-> 1, end |-> 2]

\* ------------------------------------------------------------------------
\* Properties of the program
\* ------------------------------------------------------------------------

\* C7 (configuration errors are fatal): a rules document that is not of
\* the shape {category: {subcategory: [term, ...]}} never yields a rule
\* set, so no description is ever resolved against one.
MalformedRulesRejected ==
    pc = "match" => WellFormed(raw)

\* C8 (empty description): a call on the empty description returns
\* ("Uncategorized", "Other") whatever the rule terms are.
EmptyDescriptionUnmatched ==
    \A i \in Calls :
        (Done(i) /\ txns[i] = <<>>) => Result(i) = Sentinel

\* C9 (pure resolution over a read-only rule set): while descriptions are
\* resolved the rule set stays the one load_rules_json returned, every call
\* that has returned, however it was interleaved with the others, returned
\* what best_match alone computes for its description, and two calls on the
\* same description returned the same pair.
PureResolution ==
    pc = "match" =>
        /\ rules = compiled
        /\ \A i \in Calls : Done(i) => Result(i) = best_match(txns[i], compiled)
        /\ \A i \in Calls : \A j \in Calls :
              (Done(i) /\ Done(j) /\ txns[i] = txns[j]) => Result(i) = Result(j)

\* C9 witness: two calls sharing one rule set returned, the first with a
\* match and the second, on another description, with the sentinel.
PureResolutionWitness ==
    /\ Len(txns) = 2
    /\ Done(1)
    /\ Done(2)
    /\ txns[1] # txns[2]
    /\ Result(1) # Sentinel
    /\ Result(2) = Sentinel

====
